---- MODULE Spec2Model ----
(***************************************************************************)
(* A model of the Go analyzer of codewiki-go-analyzer: the identifier      *)
(* scheme (getComponentIDForFile), the symbol collector (collectNodes,     *)
(* visitTypeSpec, visitFuncDecl) and the call resolver (collectCalls,      *)
(* visitFuncBodyForCalls, processCall, resolveCallWithTypes), run by       *)
(* Analyze as two passes over the loaded files.                            *)
(*                                                                         *)
(* Strings are sequences of one-character strings, so that the identifier  *)
(* scheme is computed character by character as the code computes it and   *)
(* two identifiers are equal exactly when the Go strings are equal.        *)
(***************************************************************************)
EXTENDS Integers, Sequences, FiniteSets, TLC

VARIABLES
    fileInfos,          \* Analyze: fileInfos, absolute filename -> fileInfo
    Nodes,              \* GoAnalyzer.Nodes
    Relationships,      \* GoAnalyzer.Relationships
    CollectedNodeIDs,   \* GoAnalyzer.CollectedNodeIDs (the keys mapped to true)
    pc,                 \* where Analyze is: "load", "collect", "calls", and
                        \* returned: "done" with nil, "failed" with an error
    pending,            \* the files the running range loop has not visited yet
    collected,          \* history: the files collectNodes has been run on
    emitted             \* history: for each edge, the call site and the path taken

vars == <<fileInfos, Nodes, Relationships, CollectedNodeIDs, pc, pending, collected,
          emitted>>

----------------------------------------------------------------------------
(* Strings *)

EmptyStr == <<>>
Dot == <<".">>

\* strings.HasPrefix
HasPrefix(s, prefix) ==
    /\ Len(prefix) <= Len(s)
    /\ SubSeq(s, 1, Len(prefix)) = prefix

\* os.IsPathSeparator on the platforms with a single separator
IsPathSeparator(c) == c = "/"

RECURSIVE Join(_, _)
\* the strings of a sequence, joined with a separator
Join(strs, sep) ==
    IF Len(strs) = 0 THEN EmptyStr
    ELSE IF Len(strs) = 1 THEN strs[1]
    ELSE strs[1] \o sep \o Join(Tail(strs), sep)

----------------------------------------------------------------------------
(* The analysis root and the paths of the files below it *)

RepoAbs == <<"/", "r">>

AbsPath(rel) == RepoAbs \o <<"/">> \o rel

\* isPathInRepo: both paths are clean already
isPathInRepo(repoAbs, path) ==
    \/ repoAbs = path
    \/ HasPrefix(path, repoAbs \o <<"/">>)

\* filepath.Rel(base, target) for a target below base
Rel(base, target) ==
    IF HasPrefix(target, base \o <<"/">>)
    THEN SubSeq(target, Len(base) + 2, Len(target))
    ELSE target

\* The index of the dot that starts the extension, 0 when there is none:
\* filepath.Ext scans back from the end and stops at a path separator.
RECURSIVE ExtStart(_, _)
ExtStart(path, i) ==
    IF i = 0 \/ IsPathSeparator(path[i]) THEN 0
    ELSE IF path[i] = "." THEN i
    ELSE ExtStart(path, i - 1)

\* filepath.Ext
Ext(path) ==
    LET i == ExtStart(path, Len(path))
    IN  IF i = 0 THEN EmptyStr ELSE SubSeq(path, i, Len(path))

\* filepath.Dir of a relative path: the directory that is the file's package
Dir(path) ==
    LET seps == {i \in 1..Len(path) : IsPathSeparator(path[i])}
    IN  IF seps = {} THEN EmptyStr
        ELSE SubSeq(path, 1, (CHOOSE i \in seps : \A j \in seps : j <= i) - 1)

----------------------------------------------------------------------------
(* The identifier scheme *)

\* the loop of getComponentIDForFile: every separator becomes a dot
ModulePath(pathNoExt) ==
    [i \in 1..Len(pathNoExt) |->
        IF IsPathSeparator(pathNoExt[i]) THEN "." ELSE pathNoExt[i]]

getComponentIDForFileDropsReceiver(filePath, name, receiverType) ==
    LET relPath == Rel(RepoAbs, filePath)
        pathNoExt == SubSeq(relPath, 1, Len(relPath) - Len(Ext(relPath)))
    IN  ModulePath(pathNoExt) \o Dot \o name

getComponentIDForFile(filePath, name, receiverType) ==
    LET relPath == Rel(RepoAbs, filePath)
        ext == Ext(relPath)
        pathNoExt == SubSeq(relPath, 1, Len(relPath) - Len(ext))
        modulePath == ModulePath(pathNoExt)
    IN  IF receiverType # EmptyStr
        THEN modulePath \o Dot \o receiverType \o Dot \o name
        ELSE modulePath \o Dot \o name

----------------------------------------------------------------------------
(* The syntax trees the parser hands over (go/ast) *)

Ident(name) == [node |-> "Ident", Name |-> name]
StarExpr(x) == [node |-> "StarExpr", X |-> x]
IndexExpr(x, index) == [node |-> "IndexExpr", X |-> x, Index |-> index]
IndexListExpr(x, indices) == [node |-> "IndexListExpr", X |-> x, Indices |-> indices]
SelectorExpr(x, sel) == [node |-> "SelectorExpr", X |-> x, Sel |-> sel]
ParenExpr(x) == [node |-> "ParenExpr", X |-> x]
FuncLit == [node |-> "FuncLit"]

\* fn.Recv: nil, or a field list of one receiver with its names and its type
NoRecv == [isNil |-> TRUE]
Recv(names, type) == [isNil |-> FALSE, Names |-> names, Type |-> type]

\* A comment group: nil, or its line comments.  A line is its text after the
\* marker, and is a directive (//go:..., no space after the marker) or not.
\* Pos is the offset of the group in the file, set when the file is parsed.
NoDoc == [isNil |-> TRUE]
Comment(text) == [directive |-> FALSE, Text |-> text]
Directive(text) == [directive |-> TRUE, Text |-> text]
CommentGroup(list) == [isNil |-> FALSE, List |-> list, Pos |-> 0]

\* fn.Body: nil, or the call expressions ast.Inspect meets in it, in order,
\* and the type declarations made inside it
NoBody == [isNil |-> TRUE]
BodyWithDecls(calls, decls) == [isNil |-> FALSE, calls |-> calls, decls |-> decls]
Body(calls) == BodyWithDecls(calls, <<>>)

\* A call expression. xIs is not syntax: it is what the operand of a selector
\* denotes in the program ("recv" the method's receiver variable, "pkg" an
\* imported package, "value" anything else), which the type checker knows.
CallExpr(fun, xIs) == [node |-> "CallExpr", Fun |-> fun, xIs |-> xIs]

\* The declarations ast.Inspect meets in a file, in order.  top tells a
\* package-level type declaration from one inside a function body.  A
\* TypeSpec on its own is the declaration "type Name Type" without
\* parentheses: the parser gives its comment to the GenDecl (GenDoc) and
\* leaves the spec's own Doc nil.  Pos and End are offsets in the file, set
\* when the file is parsed: Pos of a TypeSpec is the offset of its name, Pos
\* of a FuncDecl the offset of the func keyword.
TypeSpec(name, type, tparams, top) ==
    [node |-> "TypeSpec", Name |-> name, Type |-> type, TypeParams |-> tparams,
     top |-> top, Doc |-> NoDoc, GenDoc |-> NoDoc, Pos |-> 0, End |-> 0]
FuncDecl(name, recv, body) ==
    [node |-> "FuncDecl", Name |-> name, Recv |-> recv, Body |-> body,
     Doc |-> NoDoc, Pos |-> 0, End |-> 0]
\* var name = call(): a GenDecl whose token is not TYPE
ValueSpec(name, values) ==
    [node |-> "ValueSpec", Name |-> name, Values |-> values]
\* type ( ... ): a GenDecl with parentheses, its comment and its specs, each
\* spec with its own Doc or none
GenDecl(doc, specs) == [node |-> "GenDecl", Doc |-> doc, Specs |-> specs]
\* what the parser leaves where it could not parse a declaration
BadDecl == [node |-> "BadDecl"]
\* the same declarations with a comment attached
DocumentedType(doc, ts) == [ts EXCEPT !.GenDoc = doc]
DocumentedSpec(doc, ts) == [ts EXCEPT !.Doc = doc]
DocumentedFunc(doc, fn) == [fn EXCEPT !.Doc = doc]

RECURSIVE CommentTokens(_)
\* the source text of the line comments of a group
CommentTokens(list) ==
    IF list = <<>> THEN <<>>
    ELSE (IF Head(list).directive
          THEN <<"//", Head(list).Text, "\n">>
          ELSE <<"//", " ", Head(list).Text, "\n">>) \o CommentTokens(Tail(list))

DocTokens(doc) == IF doc.isNil THEN <<>> ELSE CommentTokens(doc.List)

RECURSIVE Text(_)
\* CommentGroup.Text on the lines of a group: markers and the space after
\* them removed, directives dropped, every line ended by a newline
Text(list) ==
    IF list = <<>> THEN <<>>
    ELSE (IF Head(list).directive THEN <<>> ELSE <<Head(list).Text, "\n">>)
         \o Text(Tail(list))

\* The source text of the declarations.  The text is a sequence of lexemes
\* and characters; an offset counts its elements.
SpecTokens(ts) == DocTokens(ts.Doc) \o ts.Name \o <<ts.Type>>
TypeDeclTokens(ts) == DocTokens(ts.GenDoc) \o <<"type">> \o ts.Name \o <<ts.Type>>

RECURSIVE SpecsTokens(_)
SpecsTokens(specs) ==
    IF specs = <<>> THEN <<>>
    ELSE SpecTokens(Head(specs)) \o <<"\n">> \o SpecsTokens(Tail(specs))

RECURSIVE NestedTokens(_)
NestedTokens(decls) ==
    IF decls = <<>> THEN <<>>
    ELSE TypeDeclTokens(Head(decls)) \o <<"\n">> \o NestedTokens(Tail(decls))

BodyTokens(body) ==
    IF body.isNil THEN <<>> ELSE <<"{">> \o NestedTokens(body.decls) \o <<"}">>

DeclTokens(d) ==
    IF d.node = "TypeSpec" THEN TypeDeclTokens(d)
    ELSE IF d.node = "FuncDecl"
    THEN DocTokens(d.Doc) \o <<"func">> \o d.Name \o BodyTokens(d.Body)
    ELSE IF d.node = "GenDecl"
    THEN DocTokens(d.Doc) \o <<"type", "(">> \o SpecsTokens(d.Specs) \o <<")">>
    ELSE IF d.node = "ValueSpec" THEN <<"var">> \o d.Name
    ELSE <<"?">>

RECURSIVE Content(_)
\* the content of the file of these declarations
Content(decls) ==
    IF decls = <<>> THEN <<>>
    ELSE DeclTokens(Head(decls)) \o <<"\n">> \o Content(Tail(decls))

\* The positions the parser records, for a declaration whose text starts at
\* offset at.
PlaceDoc(doc, at) == IF doc.isNil THEN doc ELSE [doc EXCEPT !.Pos = at]

PlaceTypeDecl(ts, at) ==
    LET name == at + Len(DocTokens(ts.GenDoc)) + 1
    IN  [ts EXCEPT !.GenDoc = PlaceDoc(@, at), !.Pos = name,
                   !.End = name + Len(ts.Name) + 1]

PlaceSpec(ts, at) ==
    LET name == at + Len(DocTokens(ts.Doc))
    IN  [ts EXCEPT !.Doc = PlaceDoc(@, at), !.Pos = name,
                   !.End = name + Len(ts.Name) + 1]

RECURSIVE PlaceSpecs(_, _)
PlaceSpecs(specs, at) ==
    IF specs = <<>> THEN <<>>
    ELSE <<PlaceSpec(Head(specs), at)>>
         \o PlaceSpecs(Tail(specs), at + Len(SpecTokens(Head(specs))) + 1)

RECURSIVE PlaceNested(_, _)
PlaceNested(decls, at) ==
    IF decls = <<>> THEN <<>>
    ELSE <<PlaceTypeDecl(Head(decls), at)>>
         \o PlaceNested(Tail(decls), at + Len(TypeDeclTokens(Head(decls))) + 1)

PlaceDecl(d, at) ==
    IF d.node = "TypeSpec" THEN PlaceTypeDecl(d, at)
    ELSE IF d.node = "FuncDecl"
    THEN LET keyword == at + Len(DocTokens(d.Doc))
         IN  [d EXCEPT !.Doc = PlaceDoc(@, at), !.Pos = keyword,
                       !.End = at + Len(DeclTokens(d)),
                       !.Body = IF @.isNil THEN @
                                ELSE [@ EXCEPT !.decls =
                                        PlaceNested(@, keyword + Len(d.Name) + 2)]]
    ELSE IF d.node = "GenDecl"
    THEN [d EXCEPT !.Doc = PlaceDoc(@, at),
                   !.Specs = PlaceSpecs(@, at + Len(DocTokens(d.Doc)) + 2)]
    ELSE d

RECURSIVE PlaceDecls(_, _)
PlaceDecls(decls, at) ==
    IF decls = <<>> THEN <<>>
    ELSE <<PlaceDecl(Head(decls), at)>>
         \o PlaceDecls(Tail(decls), at + Len(DeclTokens(Head(decls))) + 1)

RECURSIVE typeToString(_)
typeToString(expr) ==
    IF expr.node = "Ident" THEN expr.Name
    ELSE IF expr.node = "StarExpr" THEN <<"*">> \o typeToString(expr.X)
    ELSE IF expr.node = "SelectorExpr"
         THEN typeToString(expr.X) \o Dot \o expr.Sel
    ELSE IF expr.node = "IndexExpr"
         THEN typeToString(expr.X) \o <<"[">> \o typeToString(expr.Index) \o <<"]">>
    ELSE IF expr.node = "IndexListExpr"
         THEN typeToString(expr.X) \o <<"[">>
              \o Join([i \in 1..Len(expr.Indices) |-> typeToString(expr.Indices[i])],
                      <<",", " ">>)
              \o <<"]">>
    ELSE EmptyStr

\* the receiver loop of visitFuncDecl and of visitFuncBodyForCalls: the type
\* of the (last) receiver field as a string, a leading '*' stripped
recvTypeKeepsPointer(recv) == typeToString(recv.Type)

recvTypeOf(recv) ==
    LET typeStr == typeToString(recv.Type)
    IN  IF Len(typeStr) > 0 /\ typeStr[1] = "*"
        THEN SubSeq(typeStr, 2, Len(typeStr))
        ELSE typeStr

----------------------------------------------------------------------------
(* isBuiltin *)

builtinFuncs ==
    { <<"a", "p", "p", "e", "n", "d">>, <<"c", "a", "p">>,
      <<"c", "l", "e", "a", "r">>, <<"c", "l", "o", "s", "e">>,
      <<"c", "o", "m", "p", "l", "e", "x">>, <<"c", "o", "p", "y">>,
      <<"d", "e", "l", "e", "t", "e">>, <<"i", "m", "a", "g">>,
      <<"l", "e", "n">>, <<"m", "a", "x">>,
      <<"m", "i", "n">>, <<"m", "a", "k", "e">>,
      <<"n", "e", "w">>, <<"p", "a", "n", "i", "c">>,
      <<"p", "r", "i", "n", "t">>, <<"p", "r", "i", "n", "t", "l", "n">>,
      <<"r", "e", "a", "l">>, <<"r", "e", "c", "o", "v", "e", "r">> }

builtinTypes ==
    { <<"b", "o", "o", "l">>, <<"b", "y", "t", "e">>,
      <<"c", "o", "m", "p", "l", "e", "x", "6", "4">>, <<"c", "o", "m", "p", "l", "e", "x", "1", "2", "8">>,
      <<"e", "r", "r", "o", "r">>, <<"f", "l", "o", "a", "t", "3", "2">>,
      <<"f", "l", "o", "a", "t", "6", "4">>, <<"i", "n", "t">>,
      <<"i", "n", "t", "8">>, <<"i", "n", "t", "1", "6">>,
      <<"i", "n", "t", "3", "2">>, <<"i", "n", "t", "6", "4">>,
      <<"r", "u", "n", "e">>, <<"s", "t", "r", "i", "n", "g">>,
      <<"u", "i", "n", "t">>, <<"u", "i", "n", "t", "8">>,
      <<"u", "i", "n", "t", "1", "6">>, <<"u", "i", "n", "t", "3", "2">>,
      <<"u", "i", "n", "t", "6", "4">>, <<"u", "i", "n", "t", "p", "t", "r">>,
      <<"a", "n", "y">>, <<"c", "o", "m", "p", "a", "r", "a", "b", "l", "e">> }

builtinConsts ==
    { <<"t", "r", "u", "e">>, <<"f", "a", "l", "s", "e">>,
      <<"n", "i", "l">>, <<"i", "o", "t", "a">> }

isBuiltinTypeOrConst(name) ==
    name \in builtinTypes \/ name \in builtinConsts

isBuiltin(name) ==
    name \in builtinFuncs \/ name \in builtinTypes \/ name \in builtinConsts

----------------------------------------------------------------------------
(* What the type checker hands over (go/types) *)

NoType == [t |-> "nil"]
Named(pkg, name, targs) == [t |-> "Named", Pkg |-> pkg, Name |-> name, TArgs |-> targs]
Pointer(elem) == [t |-> "Pointer", Elem |-> elem]

\* types.TypeString of a named type or a pointer to one.  qualified tells
\* whether the qualifier gives the package's name or the empty string.  The
\* type arguments of an instantiated type are written with a bare comma.
TypeString(typ, qualified) ==
    LET base == IF typ.t = "Pointer" THEN typ.Elem ELSE typ
        star == IF typ.t = "Pointer" THEN <<"*">> ELSE EmptyStr
        pkg == IF qualified /\ base.Pkg # EmptyStr THEN base.Pkg \o Dot ELSE EmptyStr
        args == IF Len(base.TArgs) = 0 THEN EmptyStr
                ELSE <<"[">> \o Join(base.TArgs, <<",">>) \o <<"]">>
    IN  star \o pkg \o base.Name \o args

\* The objects of types.Info.Uses and types.Info.Selections
NoObj == [obj |-> "nil"]
Builtin == [obj |-> "Builtin"]
PkgName == [obj |-> "PkgName"]
Var == [obj |-> "Var"]
TypeName == [obj |-> "TypeName"]
\* a *types.Func: where it is declared, its name, its package's name
\* (EmptyStr for none) and the receiver of its signature (NoType for none)
Func(pos, name, pkg, recv) ==
    [obj |-> "Func", Pos |-> pos, Name |-> name, Pkg |-> pkg, Recv |-> recv]

receiverTypeString(fn) ==
    IF fn.Recv.t = "nil" THEN EmptyStr
    ELSE LET recvType == IF fn.Recv.t = "Pointer" THEN fn.Recv.Elem ELSE fn.Recv
         IN  TypeString(recvType, FALSE)

----------------------------------------------------------------------------
(* The type facts of a call.  packages.Load type-checks each package (the    *)
(* files of one directory) and the resolver reads Uses and Selections.  The   *)
(* facts are derived from the declarations of the loaded files, as the type   *)
(* checker derives them: a bare name is looked up in the package and then in  *)
(* the universe; a method is looked up in the method set of the receiver's    *)
(* type, and the method of an instantiated type has the instantiated type as  *)
(* the receiver of its signature.                                             *)

\* a position outside the analysis root
ExternalFile == <<"/", "x", "/", "x", ".", "g", "o">>

\* the type of a value of a type declared outside the analysis root: a.T
ExternalType == Named(<<"a">>, <<"T">>, <<>>)

PackageOf(filename) == Dir(Rel(RepoAbs, filename))

\* the declarations of a package, as <<filename, index>>
DeclsOfPackage(files, dir) ==
    {<<q, i>> \in UNION {{q} \X (1..Len(files[q].file)) : q \in DOMAIN files} :
        PackageOf(q) = dir}

DeclAt(files, at) == files[at[1]].file[at[2]]

RECURSIVE StripToBase(_)
\* the receiver's base type expression: pointer and parentheses removed
StripToBase(expr) ==
    IF expr.node \in {"StarExpr", "ParenExpr"} THEN StripToBase(expr.X) ELSE expr

RECURSIVE IsPointerRecv(_)
IsPointerRecv(expr) ==
    IF expr.node = "StarExpr" THEN TRUE
    ELSE IF expr.node = "ParenExpr" THEN IsPointerRecv(expr.X)
    ELSE FALSE

\* the name of the receiver's base type and the names of its type parameters
BaseName(expr) ==
    LET b == StripToBase(expr)
    IN  IF b.node = "Ident" THEN b.Name ELSE b.X.Name

BaseArgs(expr) ==
    LET b == StripToBase(expr)
    IN  IF b.node = "IndexExpr" THEN <<b.Index.Name>>
        ELSE IF b.node = "IndexListExpr"
             THEN [i \in 1..Len(b.Indices) |-> b.Indices[i].Name]
        ELSE <<>>

\* package-level functions of the name
FuncsNamed(files, dir, name) ==
    {at \in DeclsOfPackage(files, dir) :
        LET d == DeclAt(files, at)
        IN  d.node = "FuncDecl" /\ d.Recv.isNil /\ d.Name = name}

\* package-level types of the name
TypesNamed(files, dir, name) ==
    {at \in DeclsOfPackage(files, dir) :
        LET d == DeclAt(files, at)
        IN  d.node = "TypeSpec" /\ d.top /\ d.Name = name}

\* the methods of the name declared on the base type
MethodsNamed(files, dir, base, name) ==
    {at \in DeclsOfPackage(files, dir) :
        LET d == DeclAt(files, at)
        IN  /\ d.node = "FuncDecl" /\ ~d.Recv.isNil /\ d.Name = name
            /\ BaseName(d.Recv.Type) = base}

\* the name of a package of the analysed set
PkgNameOfDir(dir) == IF dir = EmptyStr THEN <<"m">> ELSE dir

\* typeInfo.Uses[ident] for the bare name of a call
UsesOfName(files, filename, name) ==
    LET dir == PackageOf(filename)
        fs == FuncsNamed(files, dir, name)
    IN  IF fs # {}
        THEN Func((CHOOSE at \in fs : TRUE)[1], name, PkgNameOfDir(dir), NoType)
        ELSE IF TypesNamed(files, dir, name) # {} THEN TypeName
        ELSE IF name \in builtinFuncs THEN Builtin
        ELSE IF name \in builtinTypes THEN TypeName
        ELSE NoObj

\* typeInfo.Selections[fun].Obj() for a selector call in the body of fn
SelectionOf(files, filename, fn, call) ==
    LET dir == PackageOf(filename)
    IN  IF call.xIs = "recv"
        THEN LET base == BaseName(fn.Recv.Type)
                 arity == Len(BaseArgs(fn.Recv.Type))
                 declared == {at \in TypesNamed(files, dir, base) :
                                 DeclAt(files, at).TypeParams = arity}
                 ms == MethodsNamed(files, dir, base, call.Fun.Sel)
             IN  IF declared = {} \/ ms = {} THEN NoObj
                 ELSE LET at == CHOOSE m \in ms : TRUE
                          inst == Named(PkgNameOfDir(dir), base, BaseArgs(fn.Recv.Type))
                      IN  Func(at[1], call.Fun.Sel, PkgNameOfDir(dir),
                               IF IsPointerRecv(DeclAt(files, at).Recv.Type)
                               THEN Pointer(inst) ELSE inst)
        ELSE IF call.xIs = "extvalue"
        THEN Func(ExternalFile, call.Fun.Sel, ExternalType.Pkg, Pointer(ExternalType))
        ELSE IF call.xIs = "value" THEN Var
        ELSE NoObj

\* typeInfo.Selections[fun].Recv(): the type of the operand of the selector
SelectionRecv(files, filename, fn, call) ==
    IF call.xIs = "recv"
    THEN LET inst == Named(PkgNameOfDir(PackageOf(filename)),
                           BaseName(fn.Recv.Type), BaseArgs(fn.Recv.Type))
         IN  IF IsPointerRecv(fn.Recv.Type) THEN Pointer(inst) ELSE inst
    ELSE IF call.xIs = "extvalue" THEN ExternalType
    ELSE NoType

\* typeInfo.Uses[fun.Sel] for a call through a package name: a function of
\* a package of the analysed set when the name is a directory of it, a
\* function declared outside the root otherwise (a file does not import its
\* own package: there the name is a package outside the root)
UsesOfQualified(files, filename, call) ==
    LET dir == call.Fun.X.Name
        fs == FuncsNamed(files, dir, call.Fun.Sel)
    IN  IF DeclsOfPackage(files, dir) = {} \/ PackageOf(filename) = dir
        THEN Func(ExternalFile, call.Fun.Sel, dir, NoType)
        ELSE IF fs # {}
        THEN Func((CHOOSE at \in fs : TRUE)[1], call.Fun.Sel, dir, NoType)
        ELSE NoObj

\* the facts resolveCallWithTypes reads for one call
TypeFacts(files, filename, fn, call) ==
    IF call.Fun.node = "Ident"
    THEN [uses |-> UsesOfName(files, filename, call.Fun.Name),
          selection |-> NoObj, selRecv |-> NoType, usesX |-> NoObj,
          usesSel |-> NoObj]
    ELSE IF call.Fun.node = "SelectorExpr" /\ call.Fun.X.node = "Ident"
    THEN [uses |-> NoObj,
          selection |-> SelectionOf(files, filename, fn, call),
          selRecv |-> SelectionRecv(files, filename, fn, call),
          usesX |-> IF call.xIs = "pkg" THEN PkgName
                    ELSE IF call.xIs = "nil" THEN NoObj ELSE Var,
          usesSel |-> IF call.xIs = "pkg" THEN UsesOfQualified(files, filename, call)
                      ELSE NoObj]
    ELSE [uses |-> NoObj, selection |-> NoObj, selRecv |-> NoType,
          usesX |-> NoObj, usesSel |-> NoObj]

----------------------------------------------------------------------------
(* The symbol collector *)

sourceCodeOfClipped(content, startOffset, endOffset) ==
    IF endOffset <= Len(content) THEN SubSeq(content, startOffset + 1, endOffset)
    ELSE SubSeq(content, startOffset + 1, Len(content))

\* string(content[startOffset:endOffset]) under the guard of the collector
sourceCodeOf(content, startOffset, endOffset) ==
    IF startOffset >= 0 /\ endOffset <= Len(content) /\ startOffset <= endOffset
    THEN SubSeq(content, startOffset + 1, endOffset)
    ELSE EmptyStr

NodeWithoutClassName(id, name, componentType, filePath, nodeType, className, doc, sourceCode) ==
    [ID |-> id, Name |-> name, ComponentType |-> componentType,
     FilePath |-> filePath, RelativePath |-> Rel(RepoAbs, filePath),
     NodeType |-> nodeType, ComponentID |-> id, ClassName |-> EmptyStr,
     SourceCode |-> sourceCode, HasDocstring |-> ~doc.isNil,
     Docstring |-> IF doc.isNil THEN EmptyStr ELSE Text(doc.List)]

\* doc is the comment group the declaration is documented by, or nil
Node(id, name, componentType, filePath, nodeType, className, doc, sourceCode) ==
    [ID |-> id, Name |-> name, ComponentType |-> componentType,
     FilePath |-> filePath, RelativePath |-> Rel(RepoAbs, filePath),
     NodeType |-> nodeType, ComponentID |-> id, ClassName |-> className,
     SourceCode |-> sourceCode, HasDocstring |-> ~doc.isNil,
     Docstring |-> IF doc.isNil THEN EmptyStr ELSE Text(doc.List)]

\* doc := ts.Doc; if doc == nil { doc = genDeclDoc }
effectiveDoc(ts, genDeclDoc) == IF ts.Doc.isNil THEN genDeclDoc ELSE ts.Doc

visitTypeSpecWithoutID(a, ts, genDeclDoc, filePath, content) ==
    IF ts.Type \notin {"InterfaceType", "StructType"} THEN a
    ELSE LET nodeType == IF ts.Type = "InterfaceType" THEN "interface" ELSE "struct"
             componentID == getComponentIDForFile(filePath, ts.Name, EmptyStr)
             doc == effectiveDoc(ts, genDeclDoc)
             startOffset == IF ~doc.isNil THEN doc.Pos ELSE ts.Pos
             node == Node(componentID, ts.Name, "class", filePath, nodeType, EmptyStr,
                          doc, sourceCodeOf(content, startOffset, ts.End))
         IN  [Nodes |-> Append(a.Nodes, node), CollectedNodeIDs |-> a.CollectedNodeIDs]

\* the collector's state is the pair of a.Nodes and a.CollectedNodeIDs
visitTypeSpec(a, ts, genDeclDoc, filePath, content) ==
    IF ts.Type \notin {"InterfaceType", "StructType"} THEN a
    ELSE LET nodeType == IF ts.Type = "InterfaceType" THEN "interface" ELSE "struct"
             componentID == getComponentIDForFile(filePath, ts.Name, EmptyStr)
             doc == effectiveDoc(ts, genDeclDoc)
             startOffset == IF ~doc.isNil THEN doc.Pos ELSE ts.Pos
             node == Node(componentID, ts.Name, "class", filePath, nodeType, EmptyStr,
                          doc, sourceCodeOf(content, startOffset, ts.End))
         IN  [Nodes |-> Append(a.Nodes, node),
              CollectedNodeIDs |-> a.CollectedNodeIDs \cup {componentID}]

visitFuncDeclKeepsPointer(a, fn, filePath, content) ==
    LET isMethod == ~fn.Recv.isNil
        recvType == IF isMethod THEN recvTypeKeepsPointer(fn.Recv) ELSE EmptyStr
        componentID == getComponentIDForFile(filePath, fn.Name, recvType)
        kind == IF isMethod THEN "method" ELSE "function"
        startOffset == IF ~fn.Doc.isNil THEN fn.Doc.Pos ELSE fn.Pos
        node == Node(componentID, fn.Name, kind, filePath, kind, recvType,
                     fn.Doc, sourceCodeOf(content, startOffset, fn.End))
    IN  [Nodes |-> Append(a.Nodes, node),
         CollectedNodeIDs |-> a.CollectedNodeIDs \cup {componentID}]

visitFuncDecl(a, fn, filePath, content) ==
    LET isMethod == ~fn.Recv.isNil
        recvType == IF isMethod THEN recvTypeOf(fn.Recv) ELSE EmptyStr
        componentID == getComponentIDForFile(filePath, fn.Name, recvType)
        kind == IF isMethod THEN "method" ELSE "function"
        startOffset == IF ~fn.Doc.isNil THEN fn.Doc.Pos ELSE fn.Pos
        node == Node(componentID, fn.Name, kind, filePath, kind, recvType,
                     fn.Doc, sourceCodeOf(content, startOffset, fn.End))
    IN  [Nodes |-> Append(a.Nodes, node),
         CollectedNodeIDs |-> a.CollectedNodeIDs \cup {componentID}]

RECURSIVE visitSpecsFrom(_, _, _, _, _, _)
\* for _, spec := range x.Specs: the specs of a GenDecl from index i on
visitSpecsFrom(a, specs, genDeclDoc, filePath, content, i) ==
    IF i > Len(specs) THEN a
    ELSE visitSpecsFrom(visitTypeSpec(a, specs[i], genDeclDoc, filePath, content),
                        specs, genDeclDoc, filePath, content, i + 1)

RECURSIVE visitNestedFrom(_, _, _, _, _)
\* ast.Inspect going on into a function body: its type declarations
visitNestedFrom(a, decls, filePath, content, i) ==
    IF i > Len(decls) THEN a
    ELSE visitNestedFrom(visitTypeSpec(a, decls[i], decls[i].GenDoc, filePath, content),
                         decls, filePath, content, i + 1)

RECURSIVE collectNodesFrom(_, _, _, _, _)
\* ast.Inspect over the declarations of the file from index i on
collectNodesFrom(a, filePath, decls, content, i) ==
    IF i > Len(decls) THEN a
    ELSE LET x == decls[i]
             next == IF x.node = "TypeSpec"
                     THEN visitTypeSpec(a, x, x.GenDoc, filePath, content)
                     ELSE IF x.node = "GenDecl"
                     THEN visitSpecsFrom(a, x.Specs, x.Doc, filePath, content, 1)
                     ELSE IF x.node = "FuncDecl"
                     THEN LET b == visitFuncDecl(a, x, filePath, content)
                          IN  IF x.Body.isNil THEN b
                              ELSE visitNestedFrom(b, x.Body.decls, filePath, content, 1)
                     ELSE a
         IN  collectNodesFrom(next, filePath, decls, content, i + 1)

collectNodes(a, filePath, info) ==
    collectNodesFrom(a, filePath, info.file, info.content, 1)

----------------------------------------------------------------------------
(* The call resolver *)

CallRelationshipResolved(caller, callee, resolved) ==
    [Caller |-> caller, Callee |-> callee, RelationshipType |-> "calls",
     IsResolved |-> TRUE]

CallRelationship(caller, callee, resolved) ==
    [Caller |-> caller, Callee |-> callee, RelationshipType |-> "calls",
     IsResolved |-> resolved]

\* a.FileSet.Position(pos).Filename is the empty string for no position
NoPos == EmptyStr

getComponentIDForPos(pos, name, receiverType) ==
    IF pos = NoPos THEN EmptyStr
    ELSE getComponentIDForFile(pos, name, receiverType)

isPosInRepo(pos) ==
    IF pos = NoPos THEN FALSE ELSE isPathInRepo(RepoAbs, pos)

Declined == [calleeName |-> EmptyStr, resolved |-> FALSE, ok |-> FALSE]
ClassifiedAsResolved(calleeName, resolved) ==
    [calleeName |-> calleeName, resolved |-> TRUE, ok |-> TRUE]

Classified(calleeName, resolved) ==
    [calleeName |-> calleeName, resolved |-> resolved, ok |-> TRUE]

\* ids is a.CollectedNodeIDs; facts are the call's entries of typeInfo
resolveCallWithTypes(ids, call, facts) ==
    IF call.Fun.node = "Ident"
    THEN LET fn == facts.uses
         IN  IF fn.obj = "Func"
             THEN LET calleeName == getComponentIDForPos(fn.Pos, fn.Name, EmptyStr)
                  IN  IF calleeName # EmptyStr /\ isPosInRepo(fn.Pos)
                      THEN Classified(calleeName, calleeName \in ids)
                      ELSE IF fn.Pkg # EmptyStr
                      THEN Classified(fn.Pkg \o Dot \o fn.Name, FALSE)
                      ELSE Classified(fn.Name, FALSE)
             ELSE IF fn.obj = "Builtin" THEN Classified(call.Fun.Name, FALSE)
             ELSE Declined
    ELSE IF call.Fun.node = "SelectorExpr"
    THEN IF facts.selection.obj # "nil"
         THEN LET fn == facts.selection
              IN  IF fn.obj = "Func"
                  THEN LET recvType == receiverTypeString(fn)
                           calleeName == getComponentIDForPos(fn.Pos, fn.Name, recvType)
                       IN  IF calleeName # EmptyStr /\ isPosInRepo(fn.Pos)
                           THEN Classified(calleeName, calleeName \in ids)
                           ELSE Classified(TypeString(facts.selRecv, TRUE)
                                           \o Dot \o fn.Name, FALSE)
                  ELSE Declined
         ELSE IF /\ call.Fun.X.node = "Ident"
                 /\ facts.usesX.obj = "PkgName"
                 /\ facts.usesSel.obj = "Func"
         THEN LET fn == facts.usesSel
                  calleeName == getComponentIDForPos(fn.Pos, fn.Name, EmptyStr)
              IN  IF calleeName # EmptyStr /\ isPosInRepo(fn.Pos)
                  THEN Classified(calleeName, calleeName \in ids)
                  ELSE Classified(call.Fun.X.Name \o Dot \o fn.Name, FALSE)
         ELSE Declined
    ELSE Declined

heuristicCalleeNamingAll(recvName, recvType, call, filePath) ==
    IF call.Fun.node = "Ident"
    THEN getComponentIDForFile(filePath, call.Fun.Name, EmptyStr)
    ELSE <<"c", "a", "l", "l">>

\* the callee name of the heuristic path of processCall
heuristicCallee(recvName, recvType, call, filePath) ==
    IF call.Fun.node = "Ident"
    THEN IF ~isBuiltin(call.Fun.Name)
         THEN getComponentIDForFile(filePath, call.Fun.Name, EmptyStr)
         ELSE call.Fun.Name
    ELSE IF call.Fun.node = "SelectorExpr" /\ call.Fun.X.node = "Ident"
    THEN IF recvName # EmptyStr /\ recvType # EmptyStr /\ call.Fun.X.Name = recvName
         THEN getComponentIDForFile(filePath, call.Fun.Sel, recvType)
         ELSE call.Fun.X.Name \o Dot \o call.Fun.Sel
    ELSE EmptyStr

processCallHeuristicOnly(r, ids, callerID, recvName, recvType, call, hasTypes, facts, filePath, site) ==
    LET calleeName == heuristicCallee(recvName, recvType, call, filePath)
    IN  IF calleeName # EmptyStr
        THEN [Relationships |->
                 Append(r.Relationships,
                        CallRelationship(callerID, calleeName, calleeName \in ids)),
              emitted |->
                 Append(r.emitted, [site |-> site, via |-> "heuristic",
                                    known |-> calleeName \in ids])]
        ELSE r

\* The resolver's state r is a.Relationships with the history of emissions;
\* hasTypes is typeInfo != nil && typePkg != nil.
processCall(r, ids, callerID, recvName, recvType, call, hasTypes, facts, filePath, site) ==
    LET typed == resolveCallWithTypes(ids, call, facts)
        calleeName == heuristicCallee(recvName, recvType, call, filePath)
        emit(callee, resolved, via) ==
            [Relationships |->
                Append(r.Relationships, CallRelationship(callerID, callee, resolved)),
             emitted |->
                Append(r.emitted, [site |-> site, via |-> via,
                                   known |-> callee \in ids])]
    IN  IF hasTypes /\ typed.ok
        THEN IF typed.calleeName # EmptyStr
             THEN emit(typed.calleeName, typed.resolved, "types")
             ELSE r
        ELSE IF calleeName # EmptyStr
             THEN emit(calleeName, calleeName \in ids, "heuristic")
             ELSE r

RECURSIVE processCallsFrom(_, _, _, _, _, _, _)
\* ast.Inspect over the calls of the body of declaration d from index j on
processCallsFrom(r, files, ids, filePath, d, calls, j) ==
    IF j > Len(calls) THEN r
    ELSE LET fn == files[filePath].file[d]
             hasRecv == ~fn.Recv.isNil
             recvType == IF hasRecv THEN recvTypeOf(fn.Recv) ELSE EmptyStr
             recvName == IF hasRecv /\ Len(fn.Recv.Names) > 0
                         THEN fn.Recv.Names[1] ELSE EmptyStr
             callerID == getComponentIDForFile(filePath, fn.Name, recvType)
             next == processCall(r, ids, callerID, recvName, recvType, calls[j],
                                 files[filePath].info,
                                 TypeFacts(files, filePath, fn, calls[j]),
                                 filePath, <<filePath, d, j>>)
         IN  processCallsFrom(next, files, ids, filePath, d, calls, j + 1)

visitFuncBodyForCalls(r, files, ids, filePath, d) ==
    LET fn == files[filePath].file[d]
    IN  IF fn.Body.isNil THEN r
        ELSE processCallsFrom(r, files, ids, filePath, d, fn.Body.calls, 1)

RECURSIVE collectCallsFrom(_, _, _, _, _)
\* ast.Inspect over the declarations of the file from index i on
collectCallsFrom(r, files, ids, filePath, i) ==
    IF i > Len(files[filePath].file) THEN r
    ELSE LET next == IF files[filePath].file[i].node = "FuncDecl"
                     THEN visitFuncBodyForCalls(r, files, ids, filePath, i)
                     ELSE r
         IN  collectCallsFrom(next, files, ids, filePath, i + 1)

collectCalls(r, files, ids, filePath) == collectCallsFrom(r, files, ids, filePath, 1)

----------------------------------------------------------------------------
(* The inputs: the files packages.Load hands to Analyze *)

\* the total number of declarations in the analysed files
MaxDecls == 3

\* the files of the root package and of the package in directory a
FileA == AbsPath(<<"a", ".", "g", "o">>)
FileAB == AbsPath(<<"a", ".", "b", ".", "g", "o">>)
FileSubB == AbsPath(<<"a", "/", "b", ".", "g", "o">>)

Filenames == {FileA, FileAB, FileSubB}
RootFilenames == {FileA, FileAB}

f == <<"f">>
g == <<"g">>
T == <<"T">>
K == <<"K">>
V == <<"V">>
t == <<"t">>
len == <<"l", "e", "n">>

CallName(name) == CallExpr(Ident(name), "nil")
CallOnRecv(x, sel) == CallExpr(SelectorExpr(Ident(x), sel), "recv")
CallOnPkg(x, sel) == CallExpr(SelectorExpr(Ident(x), sel), "pkg")
CallOnValue(x, sel) == CallExpr(SelectorExpr(Ident(x), sel), "value")
CallOnExternalValue(x, sel) == CallExpr(SelectorExpr(Ident(x), sel), "extvalue")
CallFuncLit == CallExpr(FuncLit, "nil")

\* free functions: local calls, builtins and a function named like one,
\* calls into packages, calls of function literals
FreeFunctions ==
    { FuncDecl(f, NoRecv, Body(<<CallName(g)>>)),
      FuncDecl(f, NoRecv, Body(<<CallName(len), CallOnPkg(<<"a">>, g)>>)),
      FuncDecl(g, NoRecv, NoBody),
      FuncDecl(g, NoRecv, Body(<<CallName(f), CallFuncLit>>)),
      FuncDecl(len, NoRecv, Body(<<>>)) }

\* a struct type with pointer and value methods that call each other
\* through the receiver, and a call in a package-level initialiser
Methods ==
    { TypeSpec(T, "StructType", 0, TRUE),
      FuncDecl(f, Recv(<<t>>, StarExpr(Ident(T))), Body(<<CallOnRecv(t, g)>>)),
      FuncDecl(f, Recv(<<t>>, Ident(T)),
               Body(<<CallOnRecv(t, g), CallOnExternalValue(<<"x">>, g)>>)),
      FuncDecl(g, Recv(<<t>>, StarExpr(Ident(T))), Body(<<>>)),
      FuncDecl(g, Recv(<<>>, Ident(T)), Body(<<CallOnValue(<<"x">>, f)>>)),
      FuncDecl(g, NoRecv, Body(<<>>)),
      ValueSpec(<<"v">>, <<CallName(g)>>) }

\* generic types with one and with two type parameters
GenericMethods ==
    { TypeSpec(T, "StructType", 1, TRUE),
      TypeSpec(T, "StructType", 2, TRUE),
      FuncDecl(f, Recv(<<t>>, StarExpr(IndexExpr(Ident(T), Ident(K)))),
               Body(<<CallOnRecv(t, g)>>)),
      FuncDecl(g, Recv(<<t>>, StarExpr(IndexExpr(Ident(T), Ident(K)))), Body(<<>>)),
      FuncDecl(g, Recv(<<t>>, IndexExpr(Ident(T), Ident(V))), Body(<<>>)),
      FuncDecl(f, Recv(<<t>>, StarExpr(IndexListExpr(Ident(T), <<Ident(K), Ident(V)>>))),
               Body(<<CallOnRecv(t, g)>>)),
      FuncDecl(g, Recv(<<t>>, StarExpr(IndexListExpr(Ident(T), <<Ident(K), Ident(V)>>))),
               Body(<<>>)) }

\* Documented, grouped and nested type declarations, type declarations that
\* are neither struct nor interface, documented functions, and a declaration
\* the parser could not parse
Declarations ==
    { DocumentedType(CommentGroup(<<Comment("d")>>), TypeSpec(T, "StructType", 0, TRUE)),
      TypeSpec(<<"I">>, "InterfaceType", 0, TRUE),
      TypeSpec(<<"N">>, "Ident", 0, TRUE),
      GenDecl(CommentGroup(<<Comment("d")>>),
              << TypeSpec(<<"A">>, "StructType", 0, TRUE),
                 DocumentedSpec(CommentGroup(<<Comment("e"), Directive("nolint:x")>>),
                                TypeSpec(<<"B">>, "StructType", 0, TRUE)) >>),
      DocumentedFunc(CommentGroup(<<Directive("go:noinline")>>),
                     FuncDecl(f, NoRecv,
                              BodyWithDecls(<<>>, <<TypeSpec(<<"L">>, "StructType", 0, FALSE)>>))),
      DocumentedFunc(CommentGroup(<<Comment("d")>>), FuncDecl(g, NoRecv, Body(<<>>))),
      BadDecl }

\* package-level names are declared once in a package, and a method once
\* for its receiver's base type
Redeclares(d1, d2) ==
    LET method(d) == d.node = "FuncDecl" /\ ~d.Recv.isNil
        nested(d) == d.node = "TypeSpec" /\ ~d.top
        names(d) == IF d.node = "GenDecl" THEN {d.Specs[i].Name : i \in DOMAIN d.Specs}
                    ELSE IF d.node = "BadDecl" THEN {}
                    ELSE {d.Name}
    IN  IF method(d1) /\ method(d2)
        THEN d1.Name = d2.Name /\ BaseName(d1.Recv.Type) = BaseName(d2.Recv.Type)
        ELSE /\ ~method(d1) /\ ~method(d2) /\ ~nested(d1) /\ ~nested(d2)
             /\ names(d1) \cap names(d2) # {}

\* the receivers of a base type agree on the number of its type parameters
ArityMismatch(d1, d2) ==
    /\ d1.node = "FuncDecl" /\ ~d1.Recv.isNil
    /\ d2.node = "FuncDecl" /\ ~d2.Recv.isNil
    /\ BaseName(d1.Recv.Type) = BaseName(d2.Recv.Type)
    /\ Len(BaseArgs(d1.Recv.Type)) # Len(BaseArgs(d2.Recv.Type))

Clash(d1, d2) == Redeclares(d1, d2) \/ ArityMismatch(d1, d2)

\* the files of k declarations of the palette that declare nothing twice
FilesOfLen(palette, k) ==
    {decls \in [1..k -> palette] :
        \A i, j \in 1..k : i < j => ~Clash(decls[i], decls[j])}

RECURSIVE Layouts(_, _, _)
\* the ways to give some of the files declarations of the palette, at most
\* budget declarations in all
Layouts(filenames, palette, budget) ==
    IF filenames = {} \/ budget = 0 THEN {<<>>}
    ELSE LET p == CHOOSE q \in filenames : TRUE
             rest == filenames \ {p}
         IN  Layouts(rest, palette, budget)
             \cup UNION {LET others == Layouts(rest, palette, budget - k)
                         IN  {(p :> decls) @@ r :
                                 decls \in FilesOfLen(palette, k), r \in others} :
                         k \in 1..budget}

\* the files of one package declare nothing twice either
WellFormed(layout) ==
    \A p1, p2 \in DOMAIN layout :
        (p1 # p2 /\ PackageOf(p1) = PackageOf(p2)) =>
            \A i \in 1..Len(layout[p1]), j \in 1..Len(layout[p2]) :
                ~Clash(layout[p1][i], layout[p2][j])

Inputs ==
    LET layouts == Layouts(Filenames, FreeFunctions, MaxDecls)
                   \cup Layouts(RootFilenames, Methods, MaxDecls)
                   \cup Layouts(RootFilenames, GenericMethods, MaxDecls)
                   \cup Layouts({FileA}, Declarations, MaxDecls)
    IN  {[p \in DOMAIN l |-> [file |-> PlaceDecls(l[p], 0), info |-> typed,
                               content |-> Content(l[p])]] :
            l \in {x \in layouts : DOMAIN x # {} /\ WellFormed(x)},
            typed \in BOOLEAN}

\* A file rewritten between packages.Load, which parses it, and os.ReadFile,
\* which reads its content: the positions are those of the text that was
\* parsed, the content is a shorter text, here the start of the parsed one.
StaleInputs ==
    LET layouts == Layouts({FileA}, Declarations, MaxDecls)
        \* the texts it can be cut to: nothing, a half, all but the end
        cuts(text) == {SubSeq(text, 1, n) :
                          n \in {0, Len(text) \div 2, Len(text) - 1}}
    IN  UNION {{[p \in DOMAIN l |-> [file |-> PlaceDecls(l[p], 0), info |-> typed,
                                      content |-> c]] :
                   c \in cuts(Content(l[FileA])), typed \in BOOLEAN} :
               l \in {x \in layouts : DOMAIN x # {} /\ WellFormed(x)}}

----------------------------------------------------------------------------
(* Analyze *)

Init ==
    /\ fileInfos \in Inputs
    /\ Nodes = <<>>
    /\ Relationships = <<>>
    /\ CollectedNodeIDs = {}
    /\ pc = "load"
    /\ pending = DOMAIN fileInfos
    /\ collected = {}
    /\ emitted = <<>>

InitStale ==
    /\ fileInfos \in StaleInputs
    /\ Nodes = <<>>
    /\ Relationships = <<>>
    /\ CollectedNodeIDs = {}
    /\ pc = "load"
    /\ pending = DOMAIN fileInfos
    /\ collected = {}
    /\ emitted = <<>>

\* The loop that loads the packages and reads the files.  fileInfos holds
\* from the start what the loop builds.  findModuleRoots, packages.Load or
\* os.ReadFile can fail, and then Analyze returns the error; errors of the
\* parser and of the type checker are not such a failure: packages.Load
\* records them in the packages and returns the trees it got.
LoadPackages(loadErr) ==
    /\ pc = "load"
    /\ pc' = IF loadErr THEN "failed" ELSE "collect"
    /\ UNCHANGED <<fileInfos, Nodes, Relationships, CollectedNodeIDs, pending,
                   collected, emitted>>

CollectNodesResettingIDs(filename) ==
    /\ pc = "collect"
    /\ filename \in pending
    /\ LET a == collectNodes([Nodes |-> Nodes, CollectedNodeIDs |-> {}],
                             filename, fileInfos[filename])
       IN  /\ Nodes' = a.Nodes
           /\ CollectedNodeIDs' = a.CollectedNodeIDs
    /\ pending' = pending \ {filename}
    /\ collected' = collected \cup {filename}
    /\ UNCHANGED <<fileInfos, Relationships, pc, emitted>>

\* one iteration of the first loop: a.collectNodes(filename, info)
CollectNodes(filename) ==
    /\ pc = "collect"
    /\ filename \in pending
    /\ LET a == collectNodes([Nodes |-> Nodes, CollectedNodeIDs |-> CollectedNodeIDs],
                             filename, fileInfos[filename])
       IN  /\ Nodes' = a.Nodes
           /\ CollectedNodeIDs' = a.CollectedNodeIDs
    /\ pending' = pending \ {filename}
    /\ collected' = collected \cup {filename}
    /\ UNCHANGED <<fileInfos, Relationships, pc, emitted>>

StartSecondPassEarly ==
    /\ pc = "collect"
    /\ pc' = "calls"
    /\ pending' = DOMAIN fileInfos
    /\ UNCHANGED <<fileInfos, Nodes, Relationships, CollectedNodeIDs, collected,
                   emitted>>

\* the first loop is over: the second one starts over all the files
StartSecondPass ==
    /\ pc = "collect"
    /\ pending = {}
    /\ pc' = "calls"
    /\ pending' = DOMAIN fileInfos
    /\ UNCHANGED <<fileInfos, Nodes, Relationships, CollectedNodeIDs, collected,
                   emitted>>

CollectCallsForgettingIDs(filename) ==
    /\ pc = "calls"
    /\ filename \in pending
    /\ LET r == collectCalls([Relationships |-> Relationships, emitted |-> emitted],
                             fileInfos, CollectedNodeIDs, filename)
       IN  /\ Relationships' = r.Relationships
           /\ emitted' = r.emitted
    /\ pending' = pending \ {filename}
    /\ CollectedNodeIDs' = {}
    /\ UNCHANGED <<fileInfos, Nodes, pc, collected>>

\* one iteration of the second loop: a.collectCalls(filename, info)
CollectCalls(filename) ==
    /\ pc = "calls"
    /\ filename \in pending
    /\ LET r == collectCalls([Relationships |-> Relationships, emitted |-> emitted],
                             fileInfos, CollectedNodeIDs, filename)
       IN  /\ Relationships' = r.Relationships
           /\ emitted' = r.emitted
    /\ pending' = pending \ {filename}
    /\ UNCHANGED <<fileInfos, Nodes, CollectedNodeIDs, pc, collected>>

\* return nil
Return ==
    /\ pc = "calls"
    /\ pending = {}
    /\ pc' = "done"
    /\ UNCHANGED <<fileInfos, Nodes, Relationships, CollectedNodeIDs, pending,
                   collected, emitted>>

Next ==
    \/ \E loadErr \in BOOLEAN : LoadPackages(loadErr)
    \/ \E filename \in DOMAIN fileInfos : CollectNodes(filename)
    \/ StartSecondPass
    \/ \E filename \in DOMAIN fileInfos : CollectCalls(filename)
    \/ Return

Spec == Init /\ [][Next]_vars

\* Analyze over files whose content is not the text that was parsed
SpecStale == InitStale /\ [][Next]_vars

----------------------------------------------------------------------------
(* Vocabulary of the properties *)

Range(s) == {s[i] : i \in DOMAIN s}

Edges == DOMAIN Relationships

\* the declaration and the call expression of a call site <<file, d, j>>
SiteDecl(site) == fileInfos[site[1]].file[site[2]]
SiteCall(site) == SiteDecl(site).Body.calls[site[3]]
SiteFacts(site) == TypeFacts(fileInfos, site[1], SiteDecl(site), SiteCall(site))

\* the object the call of the site denotes, whether or not the resolver is
\* given the facts
SiteObject(site) ==
    LET facts == SiteFacts(site)
    IN  IF SiteCall(site).Fun.node = "Ident" THEN facts.uses
        ELSE IF facts.selection.obj # "nil" THEN facts.selection
        ELSE IF facts.usesX.obj = "PkgName" THEN facts.usesSel
        ELSE NoObj

\* the call's target is a function or method declared under the root
TargetInRepo(site) ==
    SiteObject(site).obj = "Func" /\ isPosInRepo(SiteObject(site).Pos)

\* the call's target is declared outside the root, or is a builtin
TargetExternalOrBuiltin(site) ==
    \/ SiteObject(site).obj = "Builtin"
    \/ SiteObject(site).obj = "Func" /\ ~isPosInRepo(SiteObject(site).Pos)

\* the files whose calls have been resolved
ResolvedFiles ==
    IF pc = "done" THEN DOMAIN fileInfos
    ELSE IF pc = "calls" THEN DOMAIN fileInfos \ pending
    ELSE {}

\* the call sites of a file: the calls in the bodies of its functions
SitesOf(filename) ==
    UNION {{<<filename, d, j>> : j \in 1..Len(fileInfos[filename].file[d].Body.calls)} :
           d \in {i \in 1..Len(fileInfos[filename].file) :
                    /\ fileInfos[filename].file[i].node = "FuncDecl"
                    /\ ~fileInfos[filename].file[i].Body.isNil}}

EdgesOfSite(site) == {i \in Edges : emitted[i].site = site}

\* the receiver type string a declaration is collected under
ClassNameOf(d) == IF d.Recv.isNil THEN EmptyStr ELSE recvTypeOf(d.Recv)

\* the ids of the symbols collected for the function declaration d of a file
SymbolIDs(filename, d) ==
    {n.ID : n \in {m \in Range(Nodes) :
                     /\ m.FilePath = filename /\ m.Name = d.Name
                     /\ m.ComponentType \in {"function", "method"}
                     /\ m.ClassName = ClassNameOf(d)}}

----------------------------------------------------------------------------
(* C1..C5 *)

\* C1 as stated: every emitted edge has resolved = TRUE exactly when its
\* calleeRef is in CollectedNodeIDs at the moment it is emitted.
C1_ResolvedIffKnown ==
    \A i \in Edges : Relationships[i].IsResolved <=> emitted[i].known

\* C1 amended: an edge is resolved only if its calleeRef is in CollectedNodeIDs
\* when it is emitted; the converse holds for the edges of the heuristic path
\* and for the edges of the type-informed path whose target is declared under
\* the root (the type-informed path marks external and builtin targets
\* unresolved without consulting CollectedNodeIDs).
C1_ResolvedOnlyIfKnown ==
    \A i \in Edges :
        /\ Relationships[i].IsResolved => emitted[i].known
        /\ (emitted[i].via = "heuristic" \/ TargetInRepo(emitted[i].site))
              => (emitted[i].known => Relationships[i].IsResolved)

\* an external target's qualified name equals a collected id, and the
\* type-informed path leaves the edge unresolved; another edge is resolved
C1_Witness ==
    /\ \E i \in Edges :
          /\ emitted[i].via = "types" /\ ~TargetInRepo(emitted[i].site)
          /\ emitted[i].known /\ ~Relationships[i].IsResolved
    /\ \E i \in Edges : Relationships[i].IsResolved /\ emitted[i].known

\* C2 as stated: no two collected symbols have the same id.
C2_UniqueIds ==
    \A i, j \in DOMAIN Nodes : i # j => Nodes[i].ID # Nodes[j].ID

\* C3: an edge is emitted only when collectNodes has run on every file, and
\* once an edge has been emitted no symbol is collected.
C3_CollectBeforeResolve ==
    [][/\ Relationships' # Relationships => collected = DOMAIN fileInfos
       /\ Relationships # <<>> => Nodes' = Nodes /\ CollectedNodeIDs' = CollectedNodeIDs
      ]_vars

\* edges have been emitted for a run over several files that declare symbols
C3_Witness ==
    /\ Cardinality(DOMAIN fileInfos) >= 2
    /\ Relationships # <<>>
    /\ Len(Nodes) >= 2

\* C4 as stated: every edge of a call whose target is declared outside the
\* root, or is a builtin, is unresolved, on either path.
C4_ExternalUnresolved ==
    \A i \in Edges :
        TargetExternalOrBuiltin(emitted[i].site) => ~Relationships[i].IsResolved

\* the bare-name calls of the file's function bodies to free functions
\* declared in the same file
LocalCallSites(filename) ==
    {site \in SitesOf(filename) :
        /\ SiteCall(site).Fun.node = "Ident"
        /\ \E k \in 1..Len(fileInfos[filename].file) :
              LET d == fileInfos[filename].file[k]
              IN  d.node = "FuncDecl" /\ d.Recv.isNil /\ d.Name = SiteCall(site).Fun.Name}

\* the site has exactly one edge, from the caller's id to the id of the free
\* function of the called name in the same file, resolved
LocalCallResolved(site) ==
    /\ Cardinality(EdgesOfSite(site)) = 1
    /\ \A i \in EdgesOfSite(site) :
          /\ Relationships[i].IsResolved
          /\ SymbolIDs(site[1], SiteDecl(site)) = {Relationships[i].Caller}
          /\ SymbolIDs(site[1], FuncDecl(SiteCall(site).Fun.Name, NoRecv, NoBody))
                = {Relationships[i].Callee}

\* C5 as stated: without type facts, every bare-name call to a free function
\* declared in the same file yields exactly one edge, caller to callee, resolved.
C5_LocalResolution ==
    \A filename \in ResolvedFiles :
        ~fileInfos[filename].info =>
            \A site \in LocalCallSites(filename) : LocalCallResolved(site)

----------------------------------------------------------------------------
(* C6..C10 *)

\* the receiver's name of a method declaration, EmptyStr for none
RecvNameOf(d) ==
    IF ~d.Recv.isNil /\ Len(d.Recv.Names) > 0 THEN d.Recv.Names[1] ELSE EmptyStr

\* the methods the call of the site can mean: the call is made through the
\* receiver variable of the enclosing method, whose base type is declared in
\* the package together with a method of the called name
MethodTargets(site) ==
    LET d == SiteDecl(site)
        call == SiteCall(site)
        dir == PackageOf(site[1])
    IN  IF /\ RecvNameOf(d) # EmptyStr
           /\ call.Fun.node = "SelectorExpr"
           /\ call.Fun.X.node = "Ident"
           /\ call.Fun.X.Name = RecvNameOf(d)
           /\ \E at \in TypesNamed(fileInfos, dir, BaseName(d.Recv.Type)) :
                 DeclAt(fileInfos, at).TypeParams = Len(BaseArgs(d.Recv.Type))
        THEN MethodsNamed(fileInfos, dir, BaseName(d.Recv.Type), call.Fun.Sel)
        ELSE {}

\* the site has an edge, resolved, to the id collected for the declaration
ResolvedTo(site, at) ==
    \E i \in EdgesOfSite(site) :
        /\ Relationships[i].IsResolved
        /\ SymbolIDs(at[1], DeclAt(fileInfos, at)) = {Relationships[i].Callee}

\* C6 as stated: a call to method B of type T through the receiver variable
\* of method A of T yields a resolved edge to B's id.
C6_SameTypeMethodResolution ==
    \A filename \in ResolvedFiles :
        \A site \in SitesOf(filename) :
            \A at \in MethodTargets(site) : ResolvedTo(site, at)

\* C7 as stated: with type facts, a call to a method declared in another
\* file yields a resolved edge to the id derived from the declaring file.
C7_CrossFileMethodResolution ==
    \A filename \in ResolvedFiles :
        fileInfos[filename].info =>
            \A site \in SitesOf(filename) :
                \A at \in MethodTargets(site) :
                    at[1] # filename => ResolvedTo(site, at)

\* the declarations the type facts of the site point at
FactTargets(site) ==
    LET call == SiteCall(site)
    IN  IF call.Fun.node = "Ident"
        THEN FuncsNamed(fileInfos, PackageOf(site[1]), call.Fun.Name)
        ELSE IF call.xIs = "pkg"
        THEN FuncsNamed(fileInfos, call.Fun.X.Name, call.Fun.Sel)
        ELSE MethodTargets(site)

\* C8 as stated: the id the type-informed path computes for a call to a
\* function or method of the analysed set is the id the collector gave to
\* that declaration.
C8_ResolverIdIsCollectorId ==
    \A i \in Edges :
        (emitted[i].via = "types" /\ TargetInRepo(emitted[i].site)) =>
            \A at \in FactTargets(emitted[i].site) :
                SymbolIDs(at[1], DeclAt(fileInfos, at)) = {Relationships[i].Callee}

\* the elements of a sequence with their numbers of occurrences
Multiset(s) == [x \in Range(s) |-> Cardinality({i \in DOMAIN s : s[i] = x})]

RECURSIVE CollectAll(_, _)
\* the first pass over the files in one fixed order
CollectAll(a, filenames) ==
    IF filenames = {} THEN a
    ELSE LET p == CHOOSE q \in filenames : TRUE
         IN  CollectAll(collectNodes(a, p, fileInfos[p]), filenames \ {p})

RECURSIVE ResolveAll(_, _, _)
\* the second pass over the files in one fixed order
ResolveAll(r, ids, filenames) ==
    IF filenames = {} THEN r
    ELSE LET p == CHOOSE q \in filenames : TRUE
         IN  ResolveAll(collectCalls(r, fileInfos, ids, p), ids, filenames \ {p})

ReferenceSymbols ==
    CollectAll([Nodes |-> <<>>, CollectedNodeIDs |-> {}], DOMAIN fileInfos)

ReferenceEdges ==
    ResolveAll([Relationships |-> <<>>, emitted |-> <<>>],
               ReferenceSymbols.CollectedNodeIDs, DOMAIN fileInfos)

\* C9: whatever the order in which the two loops visit the files, the run
\* ends with the symbols and the edges of the run that visits them in one
\* fixed order, each as many times.
C9_OrderIndependent ==
    pc = "done" =>
        /\ Multiset(Nodes) = Multiset(ReferenceSymbols.Nodes)
        /\ Multiset(Relationships) = Multiset(ReferenceEdges.Relationships)

\* a finished run that visited the files in another order than the fixed one
C9_Witness ==
    /\ pc = "done"
    /\ Nodes # ReferenceSymbols.Nodes
    /\ Relationships # ReferenceEdges.Relationships
    /\ \E i \in Edges : Relationships[i].IsResolved

\* C10: every edge's caller id is not empty and is the id of the symbol
\* collected for the function or method whose body holds the call; a call
\* outside every body has no edge.
C10_CallerIsEnclosingSymbol ==
    \A i \in Edges :
        /\ Relationships[i].Caller # EmptyStr
        /\ SiteDecl(emitted[i].site).node = "FuncDecl"
        /\ SymbolIDs(emitted[i].site[1], SiteDecl(emitted[i].site))
              = {Relationships[i].Caller}

\* a finished run over a package-level initialiser that calls, with edges
\* from a pointer-receiver method and from a value-receiver method
C10_Witness ==
    /\ pc = "done"
    /\ \E p \in DOMAIN fileInfos : \E k \in 1..Len(fileInfos[p].file) :
          /\ fileInfos[p].file[k].node = "ValueSpec"
          /\ Len(fileInfos[p].file[k].Values) > 0
    /\ \E i, j \in Edges :
          /\ IsPointerRecv(SiteDecl(emitted[i].site).Recv.Type)
          /\ ~SiteDecl(emitted[j].site).Recv.isNil
          /\ ~IsPointerRecv(SiteDecl(emitted[j].site).Recv.Type)

----------------------------------------------------------------------------
(* C11..C20 *)

\* C11: for every collected symbol, the identifier computed again from the
\* symbol's own file path (absolute, or the relative one put back under the
\* root), name and class name is the symbol's id.
C11_RoundTrip ==
    \A i \in DOMAIN Nodes :
        /\ getComponentIDForFile(Nodes[i].FilePath, Nodes[i].Name, Nodes[i].ClassName)
              = Nodes[i].ID
        /\ getComponentIDForFile(AbsPath(Nodes[i].RelativePath), Nodes[i].Name,
                                 Nodes[i].ClassName) = Nodes[i].ID

\* a finished run that collected a type, a function and a method of a
\* generic receiver
C11_Witness ==
    /\ pc = "done"
    /\ \E i, j \in DOMAIN Nodes :
          /\ Nodes[i].ComponentType = "class"
          /\ Nodes[j].ComponentType = "method"
          /\ Nodes[j].ClassName = <<"T", "[", "K", ",", " ", "V", "]">>

\* the module path the identifier scheme is to give each file: the path
\* under the root, without .go, with '.' for every separator
ExpectedModulePath(filePath) ==
    IF filePath = FileA THEN <<"a">>
    ELSE IF filePath = FileAB THEN <<"a", ".", "b">>
    ELSE IF filePath = FileSubB THEN <<"a", ".", "b">>
    ELSE <<>>

SymbolsOf(S) == CollectAll([Nodes |-> <<>>, CollectedNodeIDs |-> {}], S)

\* the edges of all the files, resolved against the symbols of S only
EdgesAgainst(S) ==
    ResolveAll([Relationships |-> <<>>, emitted |-> <<>>],
               SymbolsOf(S).CollectedNodeIDs, DOMAIN fileInfos)

\* the call's target is declared under the root, in files outside S only
TargetOnlyOutside(site, S) ==
    /\ TargetInRepo(site)
    /\ FactTargets(site) # {}
    /\ \A at \in FactTargets(site) : at[1] \notin S

\* C13 as stated: resolved against the symbols of a subset S of the files,
\* no edge is resolved that is unresolved against the symbols of all the
\* files, and every call whose target is declared only outside S is
\* unresolved.
C13_SubsetUnderResolves ==
    pc = "done" =>
        \A S \in SUBSET DOMAIN fileInfos :
            LET r == EdgesAgainst(S)
            IN  \A i \in DOMAIN r.Relationships :
                    /\ r.Relationships[i].IsResolved
                          => ReferenceEdges.Relationships[i].IsResolved
                    /\ TargetOnlyOutside(r.emitted[i].site, S)
                          => ~r.Relationships[i].IsResolved

----------------------------------------------------------------------------
(* C14..C16 *)

\* The declarations of a file that can have a symbol, as the source text has
\* them: every type declaration (alone, in a group, or in a function body) and
\* every function or method.  Doc is the comment attached to the declaration
\* (for a spec of a group without a comment of its own, the group's), First
\* the offset of the declaration's own first token: the type keyword of a
\* declaration that stands alone, the name of a spec in a group, the func
\* keyword of a function.
DeclaredSymbols(filename) ==
    LET decls == fileInfos[filename].file
        ofType(ts, doc, first, grouped) ==
            [Name |-> ts.Name, ComponentType |-> "class", ClassName |-> EmptyStr,
             Type |-> ts.Type, Doc |-> doc, First |-> first, End |-> ts.End,
             top |-> ts.top, grouped |-> grouped]
        ofFunc(fn) ==
            [Name |-> fn.Name,
             ComponentType |-> IF fn.Recv.isNil THEN "function" ELSE "method",
             ClassName |-> ClassNameOf(fn), Type |-> "FuncType", Doc |-> fn.Doc,
             First |-> fn.Pos, End |-> fn.End, top |-> TRUE, grouped |-> FALSE]
        of(d) ==
            IF d.node = "TypeSpec" THEN {ofType(d, d.GenDoc, d.Pos - 1, FALSE)}
            ELSE IF d.node = "GenDecl"
            THEN {ofType(d.Specs[k],
                         IF d.Specs[k].Doc.isNil THEN d.Doc ELSE d.Specs[k].Doc,
                         d.Specs[k].Pos, TRUE) : k \in DOMAIN d.Specs}
            ELSE IF d.node = "FuncDecl"
            THEN {ofFunc(d)}
                 \cup (IF d.Body.isNil THEN {}
                       ELSE {ofType(d.Body.decls[k], d.Body.decls[k].GenDoc,
                                    d.Body.decls[k].Pos - 1, FALSE) :
                                k \in DOMAIN d.Body.decls})
            ELSE {}
    IN  UNION {of(decls[i]) : i \in DOMAIN decls}

\* the symbols collected for a declaration of a file
NodesOf(filename, s) ==
    {n \in Range(Nodes) :
        /\ n.FilePath = filename /\ n.Name = s.Name
        /\ n.ComponentType = s.ComponentType /\ n.ClassName = s.ClassName}

RECURSIVE MarkersStripped(_)
\* the text of the lines of a comment without the comment markers and the
\* space after them, every line kept and ended by a newline
MarkersStripped(list) ==
    IF list = <<>> THEN <<>>
    ELSE <<Head(list).Text, "\n">> \o MarkersStripped(Tail(list))

\* C14: for every collected declaration, hasDocumentation is true exactly
\* when a doc comment is attached to it, and then documentation is the text of
\* that comment with the comment markers stripped and sourceSpan is the text
\* of the file from the comment's offset on.
C14_DocumentationAttached ==
    \A filename \in collected :
        \A s \in DeclaredSymbols(filename) :
            \A n \in NodesOf(filename, s) :
                /\ n.HasDocstring <=> ~s.Doc.isNil
                /\ ~s.Doc.isNil =>
                      /\ n.Docstring = MarkersStripped(s.Doc.List)
                      /\ s.Doc.Pos < s.First
                      /\ n.SourceCode # EmptyStr
                      /\ n.SourceCode =
                            SubSeq(fileInfos[filename].content, s.Doc.Pos + 1,
                                   s.Doc.Pos + Len(n.SourceCode))

\* where the text of a declaration starts: at the comment attached to it, or
\* else at its own first token
StartOf(s) == IF s.Doc.isNil THEN s.First ELSE s.Doc.Pos

\* C15: for every collected symbol, sourceSpan is the text of the file from
\* the attached doc comment, or else from the declaration's own first token
\* (the type or func keyword), to the declaration's end, and it holds no text
\* of another declaration (one declared inside the other apart).
C15_SourceSpanIsDeclaration ==
    \A filename \in collected :
        \A s \in DeclaredSymbols(filename) :
            \A n \in NodesOf(filename, s) :
                /\ n.SourceCode =
                      SubSeq(fileInfos[filename].content, StartOf(s) + 1, s.End)
                /\ \A o \in DeclaredSymbols(filename) \ {s} :
                      \/ o.End <= StartOf(s)
                      \/ s.End <= StartOf(o)
                      \/ StartOf(s) <= StartOf(o) /\ o.End <= s.End
                      \/ StartOf(o) <= StartOf(s) /\ s.End <= o.End

\* a file of the run that the parser could not parse to its end
FailsToParse(filename) ==
    \E i \in DOMAIN fileInfos[filename].file :
        fileInfos[filename].file[i].node = "BadDecl"

\* C16: if a file of the run fails to parse, Analyze goes from loading to its
\* error return: it never collects a symbol and never resolves a call.
C16_ParseFailureIsFatal ==
    (\E filename \in DOMAIN fileInfos : FailsToParse(filename)) =>
        /\ pc \in {"load", "failed"}
        /\ Nodes = <<>> /\ CollectedNodeIDs = {}
        /\ Relationships = <<>>

----------------------------------------------------------------------------
(* C17..C20 *)

\* what the type-informed path answers for the call of a site
TypedAnswer(site) ==
    resolveCallWithTypes(CollectedNodeIDs, SiteCall(site), SiteFacts(site))

\* what the heuristic path names the call of a site
HeuristicAnswer(site) ==
    heuristicCallee(RecvNameOf(SiteDecl(site)), ClassNameOf(SiteDecl(site)),
                    SiteCall(site), site[1])

\* C17: in a file with type facts the edge of a call comes from the
\* type-informed path exactly when that path classifies the call, and from the
\* heuristic path only when it declines; in a file without type facts every
\* edge comes from the heuristic path; no call has an edge from both paths,
\* and the run fails only while loading, never while resolving calls.
C17_TypedPathFirst ==
    /\ pc = "failed" => Relationships = <<>> /\ collected = {}
    /\ \A filename \in ResolvedFiles :
          \A site \in SitesOf(filename) :
              LET classified == fileInfos[filename].info /\ TypedAnswer(site).ok
                  es == EdgesOfSite(site)
              IN  /\ Cardinality(es) <= 1
                  /\ \A i \in es :
                        /\ emitted[i].via = IF classified THEN "types" ELSE "heuristic"
                        /\ Relationships[i].Callee =
                              IF classified THEN TypedAnswer(site).calleeName
                              ELSE HeuristicAnswer(site)
                  /\ es # {} <=> IF classified
                                 THEN TypedAnswer(site).calleeName # EmptyStr
                                 ELSE HeuristicAnswer(site) # EmptyStr

\* a finished run over a file with type facts in which one call was
\* classified by the type-informed path and another, which that path
\* declined, fell through to the heuristic path
C17_Witness ==
    /\ pc = "done"
    /\ \E i, j \in Edges :
          /\ emitted[i].site[1] = emitted[j].site[1]
          /\ fileInfos[emitted[i].site[1]].info
          /\ emitted[i].via = "types" /\ TypedAnswer(emitted[i].site).ok
          /\ emitted[j].via = "heuristic" /\ ~TypedAnswer(emitted[j].site).ok

\* a call neither path can classify: its callee is neither an identifier nor
\* a selector on an identifier, and no type fact classifies it
Unclassifiable(site) ==
    /\ SiteCall(site).Fun.node # "Ident"
    /\ ~(SiteCall(site).Fun.node = "SelectorExpr" /\ SiteCall(site).Fun.X.node = "Ident")
    /\ ~(fileInfos[site[1]].info /\ TypedAnswer(site).ok)

\* C18: every call expression in a body has at most one edge, every edge is
\* the edge of a call expression in a body, a call neither path can classify
\* has no edge, and resolving the calls never makes the run fail.
C18_AtMostOneEdgePerCall ==
    /\ \A i \in Edges :
          /\ emitted[i].site[1] \in ResolvedFiles
          /\ emitted[i].site \in SitesOf(emitted[i].site[1])
    /\ \A filename \in DOMAIN fileInfos :
          \A site \in SitesOf(filename) :
              /\ Cardinality(EdgesOfSite(site)) <= 1
              /\ Unclassifiable(site) => EdgesOfSite(site) = {}
    /\ pc = "failed" => emitted = <<>>

\* a finished run over a function whose body calls a function by name and
\* calls a function literal: one edge for the first call, none for the second
C18_Witness ==
    /\ pc = "done"
    /\ \E filename \in DOMAIN fileInfos :
          \E s1, s2 \in SitesOf(filename) :
              /\ s1[2] = s2[2]
              /\ Cardinality(EdgesOfSite(s1)) = 1
              /\ Unclassifiable(s2) /\ EdgesOfSite(s2) = {}

\* C19: a symbol of kind type declaration is collected only for a top-level
\* struct or interface declaration: a type declaration of another form, or
\* one inside a function body, has no symbol and its id is not added to
\* CollectedNodeIDs.
C19_OnlyTopLevelStructsAndInterfaces ==
    \A filename \in collected :
        /\ \A s \in DeclaredSymbols(filename) :
              (s.ComponentType = "class"
                   /\ (~s.top \/ s.Type \notin {"StructType", "InterfaceType"})) =>
                  /\ NodesOf(filename, s) = {}
                  /\ getComponentIDForFile(filename, s.Name, EmptyStr)
                         \notin CollectedNodeIDs
        /\ \A n \in Range(Nodes) :
              (n.FilePath = filename /\ n.ComponentType = "class") =>
                  \E s \in DeclaredSymbols(filename) :
                      /\ n \in NodesOf(filename, s)
                      /\ s.top /\ s.Type \in {"StructType", "InterfaceType"}

\* the call of the site is a call by a bare name of the fixed builtin set
BareBuiltinCall(site) ==
    /\ SiteCall(site).Fun.node = "Ident"
    /\ SiteCall(site).Fun.Name \in builtinFuncs \cup builtinTypes \cup builtinConsts

\* C20: a call by a bare builtin name that takes the heuristic path has one
\* edge, whose calleeRef is the bare name and whose resolved is false,
\* whatever CollectedNodeIDs holds: no builtin name is ever an id in it.
C20_BuiltinPassedThrough ==
    /\ (builtinFuncs \cup builtinTypes \cup builtinConsts) \cap CollectedNodeIDs = {}
    /\ \A filename \in ResolvedFiles :
          \A site \in SitesOf(filename) :
              (BareBuiltinCall(site)
                   /\ ~(fileInfos[filename].info /\ TypedAnswer(site).ok)) =>
                  /\ EdgesOfSite(site) # {}
                  /\ \A i \in EdgesOfSite(site) :
                        /\ emitted[i].via = "heuristic"
                        /\ Relationships[i].Callee = SiteCall(site).Fun.Name
                        /\ ~Relationships[i].IsResolved

\* a finished run without type facts over a call len() in a package that
\* declares a function named len, whose id is in CollectedNodeIDs
C20_Witness ==
    /\ pc = "done"
    /\ \E i \in Edges :
          /\ BareBuiltinCall(emitted[i].site)
          /\ ~fileInfos[emitted[i].site[1]].info
          /\ emitted[i].via = "heuristic"
          /\ Relationships[i].Callee = len
          /\ ~Relationships[i].IsResolved
          /\ getComponentIDForFile(emitted[i].site[1], len, EmptyStr) \in CollectedNodeIDs

----------------------------------------------------------------------------
(* C21..C24 *)

\* the ids of the symbols of a collector state
IDsOf(nodes) == {nodes[i].ID : i \in DOMAIN nodes}

\* the collector's state after the first k declarations of a file that is
\* still to be collected
CollectedUpTo(filename, k) ==
    collectNodesFrom([Nodes |-> Nodes, CollectedNodeIDs |-> CollectedNodeIDs],
                     filename, SubSeq(fileInfos[filename].file, 1, k),
                     fileInfos[filename].content, 1)

\* C21: at every point of the collection pass and afterwards,
\* CollectedNodeIDs is exactly the set of the ids of the symbols in Nodes:
\* between two files, after every declaration of the file being collected,
\* and during and after the resolution pass.
C21_IdsAreTheSymbolsIds ==
    /\ CollectedNodeIDs = IDsOf(Nodes)
    /\ pc = "collect" =>
          \A filename \in pending :
              \A k \in 0..Len(fileInfos[filename].file) :
                  CollectedUpTo(filename, k).CollectedNodeIDs
                      = IDsOf(CollectedUpTo(filename, k).Nodes)

\* the collection pass between two files, with a type declaration and a
\* function collected and a file still to come
C21_Witness ==
    /\ pc = "collect" /\ pending # {} /\ collected # {}
    /\ \E i, j \in DOMAIN Nodes :
          /\ Nodes[i].ComponentType = "class"
          /\ Nodes[j].ComponentType # "class"
          /\ {Nodes[i].ID, Nodes[j].ID} \subseteq CollectedNodeIDs

\* later is earlier, or earlier with elements appended
IsPrefix(earlier, later) ==
    Len(earlier) <= Len(later) /\ SubSeq(later, 1, Len(earlier)) = earlier

\* C22: a step of the collection pass removes no id from CollectedNodeIDs
\* and only appends to Nodes; a step of the resolution pass, and any step
\* after it, leaves CollectedNodeIDs and Nodes as they are and only appends
\* to Relationships.
C22_GrowsThenFrozen ==
    [][ /\ pc = "collect" =>
              /\ CollectedNodeIDs \subseteq CollectedNodeIDs'
              /\ IsPrefix(Nodes, Nodes')
              /\ Relationships' = Relationships
        /\ pc \in {"calls", "done"} =>
              /\ CollectedNodeIDs' = CollectedNodeIDs
              /\ Nodes' = Nodes
              /\ IsPrefix(Relationships, Relationships') ]_vars

\* the resolution pass between two files: symbols and ids collected, edges
\* appended for one file, another file still to be resolved
C22_Witness ==
    /\ pc = "calls" /\ pending # {} /\ pending # DOMAIN fileInfos
    /\ Relationships # <<>>
    /\ CollectedNodeIDs # {} /\ Len(Nodes) > 1

\* the offsets of the span of a declaration are out of range for the content
OutOfRange(filename, s) ==
    \/ StartOf(s) < 0
    \/ s.End > Len(fileInfos[filename].content)
    \/ StartOf(s) > s.End

\* C23: a struct, interface, function or method declaration whose span
\* offsets are out of range for the content of its file is collected all the
\* same: its symbol has an empty sourceSpan, its id, names, kind and
\* documentation are set as for any declaration, and the run does not fail
\* while collecting.
C23_OutOfRangeSpanIsEmpty ==
    /\ pc = "failed" => collected = {} /\ Nodes = <<>>
    /\ \A filename \in collected :
          \A s \in DeclaredSymbols(filename) :
              (OutOfRange(filename, s) /\ s.Type \in {"StructType", "InterfaceType", "FuncType"}) =>
                  /\ NodesOf(filename, s) # {}
                  /\ \A n \in NodesOf(filename, s) :
                        /\ n.SourceCode = EmptyStr
                        /\ n.ID = getComponentIDForFile(filename, s.Name, s.ClassName)
                        /\ n.ID \in CollectedNodeIDs
                        /\ n.ComponentID = n.ID
                        /\ n.RelativePath = Rel(RepoAbs, filename)
                        /\ n.HasDocstring <=> ~s.Doc.isNil
                        /\ ~s.Doc.isNil => n.Docstring = Text(s.Doc.List)

\* a finished run over a file cut short after it was parsed: a documented
\* function whose span ends beyond the content is collected with an empty
\* sourceSpan and its documentation, while a declaration that still lies
\* within the content keeps its text
C23_Witness ==
    /\ pc = "done"
    /\ \E i, j \in DOMAIN Nodes :
          /\ Nodes[i].SourceCode = EmptyStr
          /\ Nodes[i].HasDocstring /\ Nodes[i].Docstring # EmptyStr
          /\ \E s \in DeclaredSymbols(Nodes[i].FilePath) :
                Nodes[i] \in NodesOf(Nodes[i].FilePath, s)
                    /\ OutOfRange(Nodes[i].FilePath, s)
          /\ Nodes[j].SourceCode # EmptyStr

====
